---- MODULE Spec2Model ----
(***************************************************************************)
(* A model of grappolo: candidate-pair suppliers (index_pair/cartesian.rs, *)
(* index_pair/ngrams.rs), the sparse similarity matrix (sim_matrix.rs) and *)
(* the recursive clusterer (cluster.rs).                                   *)
(*                                                                         *)
(* Conventions.  A Rust Vec is a TLA+ sequence; Rust's 0-based position k  *)
(* of a Vec v is v[k + 1] (operator At).  An Index is a natural number.    *)
(* A Similarity (f64 in [0,1]) is an integer on a fixed scale; only its    *)
(* order, its equality and its sums are used by the code.  Option<T> is a  *)
(* sequence of length at most one.                                         *)
(***************************************************************************)
EXTENDS Integers, Sequences, FiniteSets, TLC

\* ---------------------------------------------------------------- bounds
MaxSize == 6        \* largest size handed to CartesianIndexPairIterator::new
MaxCalls == 18      \* calls of next() explored on one supplier
MaxStrings == 2     \* strings handed to NGramPairs::new
MaxStrLen == 3      \* characters in one such string
MaxNGram == 2       \* largest ngram_length
MaxElements == 4    \* largest element sequence handed to SimilarityMatrix::new
MaxPairs == 3       \* pairs an arbitrary supplier yields before it ends
MaxSim == 2         \* similarities are 0 .. MaxSim (MaxSim stands for 1.0)
MaxDepth == 3       \* nested collect_clusters invocations explored
UsizeBits == 4      \* width of usize in the model (the arithmetic is mod 2^UsizeBits)
MaxMonoElements == 3 \* elements when new is called at two thresholds
MaxMonoPairs == 2   \* pairs of the supplier when new is called at two thresholds

\* ------------------------------------------------------- general helpers
None == << >>
Some(x) == << x >>
IsSome(o) == Len(o) = 1
Unwrap(o) == o[1]

At(v, k) == v[k + 1]
Range(v) == { v[k] : k \in DOMAIN v }
IsDistinct(v) == \A a, b \in DOMAIN v : a # b => v[a] # v[b]

RECURSIVE Pow2(_)
Pow2(w) == IF w = 0 THEN 1 ELSE 2 * Pow2(w - 1)

UsizeModulus == Pow2(UsizeBits)

\* Every sequence that lists the elements of the finite set S once each.
RECURSIVE Orderings(_)
Orderings(S) ==
    IF S = {} THEN { << >> }
    ELSE UNION { { << x >> \o rest : rest \in Orderings(S \ {x}) } : x \in S }

\* All sequences over S of length at most n.
RECURSIVE SeqsUpTo(_, _)
SeqsUpTo(S, n) ==
    IF n = 0 THEN { << >> }
    ELSE LET shorter == SeqsUpTo(S, n - 1)
         IN  shorter \cup { Append(s, x) : s \in shorter, x \in S }

\* The pairs (i, j) with i < j < n.
PairsBelow(n) == { p \in (0 .. n - 1) \X (0 .. n - 1) : p[1] < p[2] }

\* ------------------------------------------------------------- variables
VARIABLES
    supplier,       \* the candidate-pair iterator (its fields, by kind)
    yielded,        \* what the calls of next() on the supplier returned, in order
    strings,        \* NGramPairs::new: the strings
    ngram_length,   \* NGramPairs::new: the window length
    overflow_checks,\* the build: TRUE panics on integer overflow, FALSE wraps
    phase,          \* where the run is: start, eval, built, clustering, done, ...
    elements_len,   \* elements.len()
    min_similarity, \* the threshold handed to SimilarityMatrix::new
    metric,         \* similarity_metric, on the pairs it has been evaluated on
    triplets,       \* similarity_triplets, as collected so far
    pairs_taken,    \* pairs taken from the supplier by SimilarityMatrix::new
    metric_calls,   \* evaluations of similarity_metric
    matrix,         \* Option: the SimilarityMatrix that new returned
    stack,          \* the collect_clusters invocations, innermost last
    result,         \* Option: ClusteringResult.clusters
    spun,           \* Option: the last spin_off call and what it returned
    formed,         \* Option: the last cluster formed at a seed and its fate
    first_run       \* Option: what an earlier run on the same inputs returned

vars == << supplier, yielded, strings, ngram_length, overflow_checks,
           phase, elements_len, min_similarity, metric, triplets,
           pairs_taken, metric_calls, matrix, stack, result, spun, formed,
           first_run >>

supplierVars == << supplier, yielded, strings, ngram_length, overflow_checks >>
matrixVars == << phase, elements_len, min_similarity, metric, triplets,
                 pairs_taken, metric_calls, matrix, stack, result, spun, formed >>

\* ------------------------------------- index_pair/cartesian.rs
CartesianNew(size) ==
    IF size > 0
    THEN [ kind |-> "cartesian", size |-> size, row |-> 0, column |-> 0 ]
    ELSE [ kind |-> "panicked" ]

\* CartesianNext with the end test of line 48 made against size, not size - 1.
CartesianNextLateEnd(it) ==
    IF it.row = it.size \/ it.size = 1
    THEN [ item |-> None, it |-> it ]
    ELSE LET column == it.column + 1 IN
         IF column = it.size
         THEN LET row == it.row + 1 IN
              IF row = it.size
              THEN [ item |-> None,
                     it |-> [ it EXCEPT !.row = row, !.column = column ] ]
              ELSE [ item |-> Some(<< row, row + 1 >>),
                     it |-> [ it EXCEPT !.row = row, !.column = row + 1 ] ]
         ELSE [ item |-> Some(<< it.row, column >>),
                it |-> [ it EXCEPT !.column = column ] ]

CartesianNext(it) ==
    IF it.row = it.size \/ it.size = 1
    THEN [ item |-> None, it |-> it ]
    ELSE LET column == it.column + 1 IN
         IF column = it.size
         THEN LET row == it.row + 1 IN
              IF row = it.size - 1
              THEN [ item |-> None,
                     it |-> [ it EXCEPT !.row = row, !.column = column ] ]
              ELSE [ item |-> Some(<< row, row + 1 >>),
                     it |-> [ it EXCEPT !.row = row, !.column = row + 1 ] ]
         ELSE [ item |-> Some(<< it.row, column >>),
                it |-> [ it EXCEPT !.column = column ] ]

\* ------------------------------------- index_pair/ngrams.rs
\* A string is a sequence of characters; "n~" stands for a character that
\* UTF-8 encodes in two bytes (String::len counts bytes, chars() characters).
Alphabet == { "a", "b", "n~" }
Utf8Len(c) == IF c = "n~" THEN 2 ELSE 1

RECURSIVE ByteLen(_)
ByteLen(s) == IF s = << >> THEN 0 ELSE Utf8Len(Head(s)) + ByteLen(Tail(s))

\* string.chars().take(end).skip(start)
TakeSkip(s, end, start) ==
    LET upto == IF end < Len(s) THEN end ELSE Len(s)
    IN  IF start >= upto THEN << >> ELSE SubSeq(s, start + 1, upto)

RECURSIVE FilterByteLen(_, _)
FilterByteLen(windows, n) ==
    IF windows = << >> THEN << >>
    ELSE IF ByteLen(Head(windows)) = n
         THEN << Head(windows) >> \o FilterByteLen(Tail(windows), n)
         ELSE FilterByteLen(Tail(windows), n)

\* fn ngrams: [panic |-> the subtraction overflowed under overflow checks,
\*             grams |-> the windows returned otherwise]
ngrams(string, n, checks) ==
    LET len == ByteLen(string)
        overflows == len < n
        last == (len - n + 1) % UsizeModulus
        windows == [ k \in 1 .. last |->
                       TakeSkip(string, (k - 1 + n) % UsizeModulus, k - 1) ]
    IN  IF overflows /\ checks
        THEN [ panic |-> TRUE, grams |-> << >> ]
        ELSE [ panic |-> FALSE, grams |-> FilterByteLen(windows, n) ]

\* ngram_to_indices: the indices of the strings that hold each n-gram.
NGramToIndices(strs, n, checks) ==
    LET grams(i) == Range(ngrams(strs[i + 1], n, checks).grams)
        all == UNION { grams(i) : i \in 0 .. Len(strs) - 1 }
    IN  [ g \in all |-> { i \in 0 .. Len(strs) - 1 : g \in grams(i) } ]

\* index_to_ngrams, flattened: the set of pairs the iterator will hold.
NGramPairSet(strs, n, checks) ==
    LET m == NGramToIndices(strs, n, checks)
    IN  { p \in (0 .. Len(strs) - 1) \X (0 .. Len(strs) - 1) :
            p[2] > p[1] /\ \E g \in DOMAIN m : p[1] \in m[g] /\ p[2] \in m[g] }

NGramPanics(strs, n, checks) ==
    n = 0 \/ \E i \in 1 .. Len(strs) : ngrams(strs[i], n, checks).panic

NGramNext(it) ==
    IF it.current_index = Len(it.pairs)
    THEN [ item |-> None, it |-> it ]
    ELSE [ item |-> Some(At(it.pairs, it.current_index)),
           it |-> [ it EXCEPT !.current_index = @ + 1 ] ]

\* ------------------------------------- sim_matrix.rs
Score(sibling_index, similarity) ==
    [ sibling_index |-> sibling_index, similarity |-> similarity ]

\* Vec::sort_by is stable and asks the comparator only whether it answers
\* Less.  Here compare(a, b) = Less iff a.similarity > b.similarity.
RECURSIVE InsertScore(_, _)
InsertScore(sorted, x) ==
    IF sorted = << >> THEN << x >>
    ELSE IF x.similarity > Head(sorted).similarity
         THEN << x >> \o sorted
         ELSE << Head(sorted) >> \o InsertScore(Tail(sorted), x)

RECURSIVE SortScores(_)
SortScores(scores) ==
    IF scores = << >> THEN << >>
    ELSE InsertScore(SortScores(SubSeq(scores, 1, Len(scores) - 1)),
                     scores[Len(scores)])

\* The loop of lines 86-90 on the rows: both rows get the triplet's Score.
RECURSIVE PushTriplets(_, _)
PushTriplets(rows, ts) ==
    IF ts = << >> THEN rows
    ELSE LET t == Head(ts)
             r1 == [ rows EXCEPT ![t[1] + 1] = Append(@, Score(t[2], t[3])) ]
             r2 == [ r1 EXCEPT ![t[2] + 1] = Append(@, Score(t[1], t[3])) ]
         IN  PushTriplets(r2, Tail(ts))

\* The distinct values of a set of similarities, ascending.  (The code sorts
\* their decimal strings; for values in [0,1] that is their numeric order.)
RECURSIVE Ascending(_)
Ascending(S) ==
    IF S = {} THEN << >>
    ELSE LET least == CHOOSE x \in S : \A y \in S : x <= y
         IN  << least >> \o Ascending(S \ {least})

SimilaritiesOf(rows) ==
    UNION { { rows[i][k].similarity : k \in DOMAIN rows[i] } : i \in DOMAIN rows }

\* SimilarityMatrix::new after the size check and the evaluation of the
\* pairs: the merge of the triplets into the rows, the sort of every row and
\* the similarity values.
BuildMatrix(size, threshold, ts) ==
    LET empty == [ i \in 1 .. size |-> << >> ]
        pushed == PushTriplets(empty, ts)
        rows == [ i \in 1 .. size |-> SortScores(pushed[i]) ]
    IN  [ rows |-> rows,
          min_similarity |-> threshold,
          similarity_values |-> Ascending(SimilaritiesOf(rows)) ]

\* Retained without the test similarity > 0.
RetainedAtLeast(similarity, threshold) == similarity >= threshold

\* Retained with the threshold test turned round.
RetainedUpTo(similarity, threshold) == similarity > 0 /\ similarity <= threshold

\* The filter of line 83.
Retained(similarity, threshold) == similarity > 0 /\ similarity >= threshold

MatrixSize(m) == Len(m.rows)

\* impl Index for Row: the similarity of the first Score for the sibling, or 0.0.
RowIndex(row, index) ==
    IF \E k \in DOMAIN row : row[k].sibling_index = index
    THEN LET first == CHOOSE k \in DOMAIN row :
                        /\ row[k].sibling_index = index
                        /\ \A h \in 1 .. k - 1 : row[h].sibling_index # index
         IN  row[first].similarity
    ELSE 0

\* matrix[i][j]
Lookup(m, i, j) == RowIndex(At(m.rows, i), j)

\* The HashMap of lines 128-133: a later position of an index replaces an
\* earlier one.
SpinOffMap(indices) ==
    [ old \in Range(indices) |->
        (CHOOSE k \in DOMAIN indices :
            indices[k] = old /\ \A h \in DOMAIN indices : indices[h] = old => h <= k) - 1 ]

\* Survives with the threshold made strict.
SurvivesAbove(score, index_set, threshold) ==
    score.sibling_index \in index_set /\ score.similarity > threshold

\* The filter of lines 145-147.
Survives(score, index_set, threshold) ==
    score.sibling_index \in index_set /\ score.similarity >= threshold

RECURSIVE SpinOffRow(_, _, _, _)
SpinOffRow(scores, index_set, map, threshold) ==
    IF scores = << >> THEN << >>
    ELSE LET score == Head(scores)
             rest == SpinOffRow(Tail(scores), index_set, map, threshold)
         IN  IF Survives(score, index_set, threshold)
             THEN << Score(map[score.sibling_index], score.similarity) >> \o rest
             ELSE rest

spin_off(m, indices, threshold) ==
    LET map == SpinOffMap(indices)
        index_set == Range(indices)
        rows == [ k \in 1 .. Len(indices) |->
                    SpinOffRow(At(m.rows, indices[k]), index_set, map, threshold) ]
    IN  [ rows |-> rows,
          min_similarity |-> threshold,
          similarity_values |-> Ascending(SimilaritiesOf(rows)) ]

RECURSIVE SumSimilarity(_)
SumSimilarity(scores) ==
    IF scores = << >> THEN 0 ELSE Head(scores).similarity + SumSimilarity(Tail(scores))

\* RanksBefore on the sibling count alone.
RanksBeforeByCount(a, b) == a.sibling_count > b.sibling_count

\* The comparator of lines 191-199 answers Less iff a ranks strictly above b.
RanksBefore(a, b) ==
    \/ a.sibling_count > b.sibling_count
    \/ a.sibling_count = b.sibling_count /\ a.similarity_sum > b.similarity_sum

RECURSIVE InsertRanked(_, _)
InsertRanked(sorted, x) ==
    IF sorted = << >> THEN << x >>
    ELSE IF RanksBefore(x, Head(sorted))
         THEN << x >> \o sorted
         ELSE << Head(sorted) >> \o InsertRanked(Tail(sorted), x)

RECURSIVE SortRanked(_)
SortRanked(entries) ==
    IF entries = << >> THEN << >>
    ELSE InsertRanked(SortRanked(SubSeq(entries, 1, Len(entries) - 1)),
                      entries[Len(entries)])

rank_by_weight(m) ==
    LET entries == [ k \in 1 .. Len(m.rows) |->
                       [ index |-> k - 1,
                         sibling_count |-> Len(m.rows[k]),
                         similarity_sum |-> SumSimilarity(m.rows[k]) ] ]
        ordered == SortRanked(entries)
    IN  [ k \in 1 .. Len(ordered) |-> ordered[k].index ]

RECURSIVE ExcludeScores(_, _)
ExcludeScores(scores, excluding) ==
    IF scores = << >> THEN << >>
    ELSE IF Head(scores).sibling_index \in excluding
         THEN ExcludeScores(Tail(scores), excluding)
         ELSE << Head(scores) >> \o ExcludeScores(Tail(scores), excluding)

\* ranked_siblings without the filter on the excluded indices.
ranked_siblings_all(row, excluding) ==
    LET siblings == SortScores(row)
    IN  [ k \in 1 .. Len(siblings) |-> siblings[k].sibling_index ]

\* ranked_siblings that stops after the best-ranked sibling, take(1).
ranked_siblings_first_only(row, excluding) ==
    LET siblings == SortScores(ExcludeScores(row, excluding))
        kept == IF siblings = << >> THEN << >> ELSE << Head(siblings) >>
    IN  [ k \in 1 .. Len(kept) |-> kept[k].sibling_index ]

ranked_siblings(row, excluding) ==
    LET siblings == SortScores(ExcludeScores(row, excluding))
    IN  [ k \in 1 .. Len(siblings) |-> siblings[k].sibling_index ]

\* ------------------------------------- the supplier handed to new
\* What one call of next() may return, with the iterator it leaves.  An
\* iterator of kind "any" is an arbitrary Iterator<Item = IndexPair> that
\* keeps the contract i < j < size: any such pair, or None, at every call.
SupplierOutcomes(it) ==
    CASE it.kind = "cartesian" -> { CartesianNext(it) }
      [] it.kind = "ngram" -> { NGramNext(it) }
      [] it.kind = "any" ->
            { [ item |-> None, it |-> it ] } \cup
            { [ item |-> Some(p), it |-> [ it EXCEPT !.count = @ + 1 ] ] :
                p \in IF it.count < MaxPairs THEN PairsBelow(it.size) ELSE {} }
      [] OTHER -> {}

InsertAt(v, pos, x) == SubSeq(v, 1, pos) \o << x >> \o SubSeq(v, pos + 1, Len(v))

\* ------------------------------------- SimilarityMatrix::new, step by step
\* NewStart without the size check.
NewStartUnchecked ==
    /\ phase = "start"
    /\ phase' = "eval"
    /\ UNCHANGED << supplierVars, first_run, elements_len, min_similarity, metric, triplets,
                    pairs_taken, metric_calls, matrix, stack, result, spun, formed >>

\* Lines 67-74: the size check comes first.
NewStart ==
    /\ phase = "start"
    /\ phase' = IF elements_len > 0 THEN "eval" ELSE "panicked"
    /\ UNCHANGED << supplierVars, first_run, elements_len, min_similarity, metric, triplets,
                    pairs_taken, metric_calls, matrix, stack, result, spun, formed >>

\* Lines 78-84, one pair: taken from the supplier, evaluated, filtered and
\* collected.  par_bridge evaluates in parallel, so a retained triplet may
\* land anywhere in the collected Vec.
EvalPair ==
    /\ phase = "eval"
    /\ \E out \in SupplierOutcomes(supplier) :
        /\ IsSome(out.item)
        /\ supplier' = out.it
        /\ pairs_taken' = pairs_taken + 1
        /\ LET p == Unwrap(out.item) IN
           IF p[1] >= elements_len \/ p[2] >= elements_len
           THEN /\ phase' = "panicked"
                /\ UNCHANGED << metric, metric_calls, triplets >>
           ELSE /\ phase' = phase
                /\ metric_calls' = metric_calls + 1
                /\ \E similarity \in IF p \in DOMAIN metric
                                      THEN { metric[p] } ELSE 0 .. MaxSim :
                    /\ metric' = [ q \in DOMAIN metric \cup { p } |->
                                     IF q = p THEN similarity ELSE metric[q] ]
                    /\ IF Retained(similarity, min_similarity)
                       THEN \E pos \in 0 .. Len(triplets) :
                              triplets' = InsertAt(triplets, pos,
                                                   << p[1], p[2], similarity >>)
                       ELSE triplets' = triplets
    /\ UNCHANGED << yielded, strings, ngram_length, overflow_checks, first_run,
                    elements_len,
                    min_similarity, matrix, stack, result, spun, formed >>

\* Lines 86-103, once the supplier has returned None.
EndOfPairs ==
    /\ phase = "eval"
    /\ \E out \in SupplierOutcomes(supplier) :
        /\ out.item = None
        /\ supplier' = out.it
    /\ matrix' = Some(BuildMatrix(elements_len, min_similarity, triplets))
    /\ phase' = "built"
    /\ UNCHANGED << yielded, strings, ngram_length, overflow_checks, first_run,
                    elements_len,
                    min_similarity, metric, triplets, pairs_taken, metric_calls,
                    stack, result, spun, formed >>

\* ------------------------------------- cluster.rs
\* One invocation of collect_clusters: its matrix, the ranked indices and the
\* position of the loop in them, and the Clusterer's three fields.
NewFrame(m) ==
    [ matrix |-> m,
      ranked |-> rank_by_weight(m),
      next |-> 0,
      clusters_so_far |-> << >>,
      visited_so_far |-> {},
      current_cluster |-> << >> ]

Top == stack[Len(stack)]
SetTop(frame) == [ stack EXCEPT ![Len(stack)] = frame ]
InLoop == phase = "clustering" /\ Top.next < Len(Top.ranked)
CurrentIndex == At(Top.ranked, Top.next)

can_add(frame, index) == index \notin frame.visited_so_far

\* new_cluster(current_index), then add_to_cluster for every ranked sibling.
FormCluster(frame, index) ==
    << index >> \o
    ranked_siblings(At(frame.matrix.rows, index), frame.visited_so_far \cup { index })

\* CommitsDirectly with the size test made <= 3.
CommitsDirectlyUpToThree(cluster, m) == Len(cluster) <= 3 \/ Len(cluster) = MatrixSize(m)

\* CommitsDirectly without the test against the size of the matrix.
CommitsDirectlyBelowThree(cluster, m) == Len(cluster) < 3

\* The test of line 75.
CommitsDirectly(cluster, m) == Len(cluster) < 3 \/ Len(cluster) = MatrixSize(m)

\* commit_inner_clusters without the mapping back to the caller's indices.
commit_inner_clusters_unmapped(current_cluster, sub_clusters) == sub_clusters

\* commit_inner_clusters: every local index becomes the member at that
\* position of the current cluster.
commit_inner_clusters(current_cluster, sub_clusters) ==
    [ c \in 1 .. Len(sub_clusters) |->
        [ k \in 1 .. Len(sub_clusters[c]) |-> At(current_cluster, sub_clusters[c][k]) ] ]

\* Clusterer::cluster, on the matrix that new returned.
ClusterCall ==
    /\ phase = "built"
    /\ stack' = << NewFrame(Unwrap(matrix)) >>
    /\ phase' = "clustering"
    /\ UNCHANGED << supplierVars, first_run, elements_len, min_similarity, metric, triplets,
                    pairs_taken, metric_calls, matrix, result, spun, formed >>

\* main.rs: one threshold slice of the master matrix over all the indices,
\* then Clusterer::cluster on the slice.
SliceAndCluster ==
    /\ phase = "built"
    /\ LET m == Unwrap(matrix)
           indices == [ k \in 1 .. elements_len |-> k - 1 ]
       IN  \E v \in Range(m.similarity_values) :
             LET child == spin_off(m, indices, v) IN
             /\ spun' = Some([ parent |-> m, indices |-> indices,
                               min_similarity |-> v, child |-> child ])
             /\ stack' = << NewFrame(child) >>
    /\ phase' = "clustering"
    /\ UNCHANGED << supplierVars, first_run, elements_len, min_similarity, metric, triplets,
                    pairs_taken, metric_calls, matrix, result, formed >>

\* Lines 64-65: the loop passes an index that is already visited.
SkipVisited ==
    /\ InLoop
    /\ ~ can_add(Top, CurrentIndex)
    /\ stack' = SetTop([ Top EXCEPT !.next = @ + 1 ])
    /\ UNCHANGED << supplierVars, first_run, phase, elements_len, min_similarity, metric,
                    triplets, pairs_taken, metric_calls, matrix, result, spun, formed >>

\* Lines 66-76: a cluster is formed at the seed and committed as it is.
CommitCluster ==
    /\ InLoop
    /\ can_add(Top, CurrentIndex)
    /\ LET cluster == FormCluster(Top, CurrentIndex) IN
       /\ CommitsDirectly(cluster, Top.matrix)
       /\ stack' = SetTop([ Top EXCEPT
                              !.next = @ + 1,
                              !.visited_so_far = @ \cup Range(cluster),
                              !.clusters_so_far = Append(@, cluster),
                              !.current_cluster = << >> ])
       /\ formed' = Some([ seed |-> CurrentIndex, cluster |-> cluster,
                           size |-> MatrixSize(Top.matrix), fate |-> "committed",
                           depth |-> Len(stack) ])
    /\ UNCHANGED << supplierVars, first_run, phase, elements_len, min_similarity, metric,
                    triplets, pairs_taken, metric_calls, matrix, result, spun >>

\* Lines 66-81: a cluster is formed at the seed, a matrix is spun off for it
\* and collect_clusters is entered on that matrix with a fresh Clusterer.
RefineCluster ==
    /\ InLoop
    /\ can_add(Top, CurrentIndex)
    /\ Len(stack) < MaxDepth
    /\ \E cluster \in { FormCluster(Top, CurrentIndex) } :
       \E child \in { spin_off(Top.matrix, cluster, 0) } :
       /\ ~ CommitsDirectly(cluster, Top.matrix)
       /\ stack' = Append(SetTop([ Top EXCEPT
                                     !.visited_so_far = @ \cup Range(cluster),
                                     !.current_cluster = cluster ]),
                          NewFrame(child))
       /\ spun' = Some([ parent |-> Top.matrix, indices |-> cluster,
                         min_similarity |-> 0, child |-> child ])
       /\ formed' = Some([ seed |-> CurrentIndex, cluster |-> cluster,
                           size |-> MatrixSize(Top.matrix), fate |-> "refined",
                           depth |-> Len(stack) ])
    /\ UNCHANGED << supplierVars, first_run, phase, elements_len, min_similarity, metric,
                    triplets, pairs_taken, metric_calls, matrix, result >>

\* Lines 87 and 82: the inner collect_clusters returns its clusters and the
\* caller commits them, remapped, and goes on with its loop.
ReturnInner ==
    /\ phase = "clustering"
    /\ Len(stack) > 1
    /\ Top.next = Len(Top.ranked)
    /\ LET caller == stack[Len(stack) - 1]
           inner == commit_inner_clusters(caller.current_cluster, Top.clusters_so_far)
       IN  stack' = Append(SubSeq(stack, 1, Len(stack) - 2),
                           [ caller EXCEPT !.next = @ + 1,
                                           !.clusters_so_far = @ \o inner ])
    /\ UNCHANGED << supplierVars, first_run, phase, elements_len, min_similarity, metric,
                    triplets, pairs_taken, metric_calls, matrix, result, spun, formed >>

\* Lines 87 and 39-41: the outermost collect_clusters returns.
ReturnResult ==
    /\ phase = "clustering"
    /\ Len(stack) = 1
    /\ Top.next = Len(Top.ranked)
    /\ result' = Some([ clusters |-> Top.clusters_so_far,
                        similarity_matrix |-> Top.matrix ])
    /\ stack' = << >>
    /\ phase' = "done"
    /\ UNCHANGED << supplierVars, first_run, elements_len, min_similarity, metric, triplets,
                    pairs_taken, metric_calls, matrix, spun, formed >>

\* ------------------------------------- the run: new, then cluster
IdleSupplierVars ==
    /\ yielded = << >>
    /\ strings = << >>
    /\ ngram_length = 0
    /\ overflow_checks = FALSE

FreshRun ==
    /\ phase = "start"
    /\ triplets = << >>
    /\ pairs_taken = 0
    /\ metric_calls = 0
    /\ matrix = None
    /\ stack = << >>
    /\ result = None
    /\ spun = None
    /\ formed = None
    /\ first_run = None

\* Any element count, any threshold, any supplier of pairs i < j < N.  For
\* an empty element sequence the supplier is the one the test passes.
Init ==
    /\ IdleSupplierVars
    /\ FreshRun
    /\ metric = << >>
    /\ elements_len \in 0 .. MaxElements
    /\ min_similarity \in 0 .. MaxSim
    /\ supplier \in IF elements_len = 0
                    THEN { CartesianNew(2), [ kind |-> "any", size |-> 2, count |-> 0 ] }
                    ELSE { [ kind |-> "any", size |-> elements_len, count |-> 0 ] }

Next ==
    \/ NewStart
    \/ EvalPair
    \/ EndOfPairs
    \/ ClusterCall
    \/ SliceAndCluster
    \/ SkipVisited
    \/ CommitCluster
    \/ RefineCluster
    \/ ReturnInner
    \/ ReturnResult

Spec == Init /\ [][Next]_vars

\* A step of Clusterer::cluster once it has been called.
ClustererStep ==
    \/ SkipVisited
    \/ CommitCluster
    \/ RefineCluster
    \/ ReturnInner
    \/ ReturnResult

\* The run as the program executes it: collect_clusters is sequential code
\* and takes its next step whenever it has one.
LiveSpec == Init /\ [][Next]_vars /\ WF_vars(ClustererStep)

\* ------------------------------------- a second run on the same inputs
\* The same elements, threshold, metric and pairs again: the triplets are
\* collected in another order (another supplier order, another interleaving
\* of the parallel evaluation), merged, and the new matrix is clustered.
Rerun ==
    /\ phase = "done"
    /\ first_run = None
    /\ first_run' = Some(Unwrap(result).clusters)
    /\ \E order \in Orderings(DOMAIN triplets) :
        /\ triplets' = [ k \in DOMAIN triplets |-> triplets[order[k]] ]
        /\ matrix' = Some(BuildMatrix(elements_len, min_similarity, triplets'))
    /\ phase' = "built"
    /\ stack' = << >>
    /\ result' = None
    /\ spun' = None
    /\ formed' = None
    /\ UNCHANGED << supplierVars, elements_len, min_similarity, metric,
                    pairs_taken, metric_calls >>

DetNext ==
    \/ NewStart
    \/ EvalPair
    \/ EndOfPairs
    \/ ClusterCall
    \/ SkipVisited
    \/ CommitCluster
    \/ RefineCluster
    \/ ReturnInner
    \/ ReturnResult
    \/ Rerun

DetSpec == Init /\ [][DetNext]_vars

\* ------------------------------------- spin_off called on its own
\* tests::matrix_creates_proper_spin_off: a matrix built at threshold 0.0,
\* projected onto a list of distinct indices at some threshold.
SpinOffCall ==
    /\ phase = "built"
    /\ LET m == Unwrap(matrix) IN
       \E subset \in SUBSET (0 .. elements_len - 1) :
       \E indices \in Orderings(subset) :
       \E threshold \in 0 .. MaxSim :
          /\ indices # << >>
          /\ spun' = Some([ parent |-> m, indices |-> indices,
                            min_similarity |-> threshold,
                            child |-> spin_off(m, indices, threshold) ])
    /\ phase' = "spun"
    /\ UNCHANGED << supplierVars, first_run, elements_len, min_similarity, metric,
                    triplets, pairs_taken, metric_calls, matrix, stack, result, formed >>

SpinInit == Init /\ min_similarity = 0

SpinNext ==
    \/ NewStart
    \/ EvalPair
    \/ EndOfPairs
    \/ SpinOffCall
    \/ ClusterCall
    \/ SliceAndCluster
    \/ SkipVisited
    \/ CommitCluster
    \/ RefineCluster
    \/ ReturnInner
    \/ ReturnResult

SpinSpec == SpinInit /\ [][SpinNext]_vars

\* ------------------------------------- the eight names
\* tests::name_scores: normalized_damerau_levenshtein on the eight names, on
\* the scale 1260 = 1.0 (every tabulated value is a multiple of 1/1260).
NameScores ==
    ( << 0, 1 >> :> 700 ) @@ ( << 0, 2 >> :> 140 ) @@ ( << 0, 3 >> :> 140 ) @@
    ( << 0, 4 >> :> 280 ) @@ ( << 0, 5 >> :> 280 ) @@ ( << 0, 6 >> :> 280 ) @@
    ( << 0, 7 >> :> 420 ) @@ ( << 1, 2 >> :> 210 ) @@ ( << 1, 3 >> :> 0 ) @@
    ( << 1, 4 >> :> 540 ) @@ ( << 1, 5 >> :> 540 ) @@ ( << 1, 6 >> :> 540 ) @@
    ( << 1, 7 >> :> 180 ) @@ ( << 2, 3 >> :> 1050 ) @@ ( << 2, 4 >> :> 540 ) @@
    ( << 2, 5 >> :> 540 ) @@ ( << 2, 6 >> :> 540 ) @@ ( << 2, 7 >> :> 180 ) @@
    ( << 3, 4 >> :> 540 ) @@ ( << 3, 5 >> :> 540 ) @@ ( << 3, 6 >> :> 540 ) @@
    ( << 3, 7 >> :> 360 ) @@ ( << 4, 5 >> :> 1080 ) @@ ( << 4, 6 >> :> 1080 ) @@
    ( << 4, 7 >> :> 0 ) @@ ( << 5, 6 >> :> 900 ) @@ ( << 5, 7 >> :> 0 ) @@
    ( << 6, 7 >> :> 0 )

NameCount == 8
NameThreshold == 567    \* 0.45 on the scale 1260

\* tests::creates_simple_clusters.
NamesInit ==
    /\ IdleSupplierVars
    /\ FreshRun
    /\ elements_len = NameCount
    /\ min_similarity = NameThreshold
    /\ supplier = CartesianNew(NameCount)
    /\ metric = NameScores

NamesNext ==
    \/ NewStart
    \/ EvalPair
    \/ EndOfPairs
    \/ ClusterCall
    \/ SkipVisited
    \/ CommitCluster
    \/ RefineCluster
    \/ ReturnInner
    \/ ReturnResult

NamesSpec == NamesInit /\ [][NamesNext]_vars

\* ------------------------------------- the suppliers on their own
IdleMatrixVars ==
    /\ phase = "idle"
    /\ elements_len = 0
    /\ min_similarity = 0
    /\ metric = << >>
    /\ triplets = << >>
    /\ pairs_taken = 0
    /\ metric_calls = 0
    /\ matrix = None
    /\ stack = << >>
    /\ result = None
    /\ spun = None
    /\ formed = None
    /\ first_run = None

\* One call of next() on the supplier, whatever it returned before.
CallNext ==
    /\ supplier.kind \in { "cartesian", "ngram" }
    /\ Len(yielded) < MaxCalls
    /\ \E out \in SupplierOutcomes(supplier) :
        /\ supplier' = out.it
        /\ yielded' = Append(yielded, out.item)
    /\ UNCHANGED << strings, ngram_length, overflow_checks, matrixVars, first_run >>

CartInit ==
    /\ IdleSupplierVars
    /\ IdleMatrixVars
    /\ \E size \in 0 .. MaxSize : supplier = CartesianNew(size)

CartNext == CallNext

CartSpec == CartInit /\ [][CartNext]_vars

\* tests::builds_pairs_correctly.
NameStrings ==
    << << "a", "l", "e", "j", "a", "n", "d", "r", "o" >>,
       << "m", "a", "r", "l", "e", "n", "e" >>,
       << "m", "a", "r", "t", "h", "a" >>,
       << "r", "i", "c", "a", "r", "d", "o" >> >>

\* NGramPairs::new: the pairs are laid out in the iteration order of a
\* HashMap of HashSets, which is any order.
NGramNew ==
    /\ supplier.kind = "unbuilt"
    /\ IF NGramPanics(strings, ngram_length, overflow_checks)
       THEN supplier' = [ kind |-> "panicked" ]
       ELSE \E pairs \in Orderings(NGramPairSet(strings, ngram_length, overflow_checks)) :
              supplier' = [ kind |-> "ngram", pairs |-> pairs, current_index |-> 0 ]
    /\ UNCHANGED << yielded, strings, ngram_length, overflow_checks, matrixVars,
                    first_run >>

NGramInit ==
    /\ IdleMatrixVars
    /\ yielded = << >>
    /\ supplier = [ kind |-> "unbuilt" ]
    /\ overflow_checks \in BOOLEAN
    /\ \/ /\ strings \in SeqsUpTo(SeqsUpTo(Alphabet, MaxStrLen), MaxStrings)
          /\ ngram_length \in 0 .. MaxNGram
       \/ /\ strings = NameStrings
          /\ ngram_length = 2

NGramSpecNext ==
    \/ NGramNew
    \/ CallNext

NGramSpec == NGramInit /\ [][NGramSpecNext]_vars

\* ------------------------------------- new at two thresholds
\* The elements are strings and the supplier is the NGramPairs built on them
\* with windows of one character; the alphabet gives strings that share a
\* window and strings that have none.
MonoElements == { << "a" >>, << "b" >>, << "a", "b" >>, << "n~" >> }

MonoInit ==
    /\ FreshRun
    /\ metric = << >>
    /\ yielded = << >>
    /\ overflow_checks = FALSE
    /\ ngram_length = 1
    /\ \E n \in 1 .. MaxMonoElements : strings \in [ 1 .. n -> MonoElements ]
    /\ Cardinality(NGramPairSet(strings, ngram_length, overflow_checks)) <= MaxMonoPairs
    /\ \E pairs \in Orderings(NGramPairSet(strings, ngram_length, overflow_checks)) :
          supplier = [ kind |-> "ngram", pairs |-> pairs, current_index |-> 0 ]
    /\ elements_len = Len(strings)
    /\ min_similarity \in 0 .. MaxSim

\* SimilarityMatrix::new called again on the same elements and metric, with
\* a fresh NGramPairs over the same strings, at any threshold.
NewAgain ==
    /\ phase = "built"
    /\ first_run = None
    /\ first_run' = Some(Unwrap(matrix))
    /\ min_similarity' \in 0 .. MaxSim
    /\ \E pairs \in Orderings(Range(supplier.pairs)) :
          supplier' = [ kind |-> "ngram", pairs |-> pairs, current_index |-> 0 ]
    /\ phase' = "start"
    /\ triplets' = << >>
    /\ pairs_taken' = 0
    /\ metric_calls' = 0
    /\ matrix' = None
    /\ UNCHANGED << yielded, strings, ngram_length, overflow_checks, elements_len,
                    metric, stack, result, spun, formed >>

MonoNext ==
    \/ NewStart
    \/ EvalPair
    \/ EndOfPairs
    \/ NewAgain
    \/ SpinOffCall

MonoSpec == MonoInit /\ [][MonoNext]_vars

\* ======================================================== the claims
PartitionOf(clusters) == { Range(clusters[c]) : c \in DOMAIN clusters }

Occurrences(clusters, index) ==
    Cardinality({ ck \in UNION { { << c, k >> : k \in DOMAIN clusters[c] } :
                                  c \in DOMAIN clusters } :
                  clusters[ck[1]][ck[2]] = index })

RECURSIVE SumOfSizes(_)
SumOfSizes(clusters) ==
    IF clusters = << >> THEN 0 ELSE Len(Head(clusters)) + SumOfSizes(Tail(clusters))

TripletPairs == [ k \in DOMAIN triplets |-> << triplets[k][1], triplets[k][2] >> ]

\* C1: the clusters that Clusterer::cluster returns partition 0 .. N-1, for
\* any supplied sequence of pairs i < j < N: no cluster is empty, every index
\* is in exactly one cluster exactly once, and the sizes sum to N.
C1_ClustersPartitionIndices ==
    phase = "done" =>
        LET clusters == Unwrap(result).clusters IN
        /\ \A c \in DOMAIN clusters : clusters[c] # << >>
        /\ \A index \in 0 .. elements_len - 1 : Occurrences(clusters, index) = 1
        /\ UNION PartitionOf(clusters) = 0 .. elements_len - 1
        /\ SumOfSizes(clusters) = elements_len

\* Every matrix the run holds: the one new returned, the ones spin_off
\* returned, the ones being clustered and the one of the result.
MatricesHeld ==
    { Unwrap(matrix) : x \in { 1 } \cap { Len(matrix) } } \cup
    { Unwrap(spun).child : x \in { 1 } \cap { Len(spun) } } \cup
    { stack[k].matrix : k \in DOMAIN stack } \cup
    { Unwrap(result).similarity_matrix : x \in { 1 } \cap { Len(result) } }

HasScore(m, i, j) ==
    \E k \in DOMAIN At(m.rows, i) : At(m.rows, i)[k].sibling_index = j

\* C2: in every matrix that new or spin_off returned, matrix[i][j] equals
\* matrix[j][i] for all i, j below its size, and matrix[i][j] is 0.0 when
\* row i holds no Score for sibling j.
C2_LookupIsSymmetric ==
    \A m \in MatricesHeld :
    \A i, j \in 0 .. MatrixSize(m) - 1 :
        /\ Lookup(m, i, j) = Lookup(m, j, i)
        /\ ~ HasScore(m, i, j) => Lookup(m, i, j) = 0

\* C3: two runs on the same elements, threshold, metric and set of pairs,
\* whose triplets were collected and merged in different orders, end with
\* the same partition, as a set of sets of indices.
C3_SamePartitionInAnyOrder ==
    ( phase = "done" /\ IsSome(first_run) /\ IsDistinct(TripletPairs) ) =>
        PartitionOf(Unwrap(result).clusters) = PartitionOf(Unwrap(first_run))

\* C3, its case: a second run whose clusters come out as other sequences.
C3_SecondRunDiffers ==
    /\ phase = "done"
    /\ IsSome(first_run)
    /\ IsDistinct(TripletPairs)
    /\ Unwrap(result).clusters # Unwrap(first_run)
    /\ \E c \in DOMAIN Unwrap(first_run) : Len(Unwrap(first_run)[c]) >= 3

\* C4: spin_off over distinct in-range indices returns a matrix of size
\* |indices| whose lookup at (a, b) is the old lookup at (indices[a],
\* indices[b]) when that is >= the threshold, and 0.0 otherwise; a Score
\* survives iff both its ends are listed and its similarity is >= the
\* threshold.
C4_SpinOffProjects ==
    ( IsSome(spun) /\ IsDistinct(Unwrap(spun).indices) ) =>
        LET call == Unwrap(spun)
            old(a, b) == Lookup(call.parent, At(call.indices, a), At(call.indices, b))
        IN  /\ MatrixSize(call.child) = Len(call.indices)
            /\ \A a, b \in 0 .. Len(call.indices) - 1 :
                /\ Lookup(call.child, a, b) =
                      IF old(a, b) >= call.min_similarity THEN old(a, b) ELSE 0
                /\ HasScore(call.child, a, b) <=>
                      ( /\ HasScore(call.parent, At(call.indices, a), At(call.indices, b))
                        /\ old(a, b) >= call.min_similarity )

\* C4, its case: a reordered proper subset, one edge kept and one dropped
\* by the threshold.
C4_SpinOffKeepsAndDrops ==
    /\ IsSome(spun)
    /\ LET call == Unwrap(spun) IN
       /\ IsDistinct(call.indices)
       /\ Len(call.indices) < MatrixSize(call.parent)
       /\ \E a, b \in 0 .. Len(call.indices) - 1 :
            /\ At(call.indices, a) > At(call.indices, b) /\ a < b
            /\ Lookup(call.child, a, b) > 0
       /\ \E a, b \in 0 .. Len(call.indices) - 1 :
            /\ Lookup(call.parent, At(call.indices, a), At(call.indices, b)) > 0
            /\ Lookup(call.child, a, b) = 0

\* C5: the eight names at threshold 0.45 with exhaustive pairs come out as
\* exactly the four clusters {0,1}, {2,3}, {4,5,6} and {7}.
C5_NamesClusters ==
    phase = "done" =>
        /\ Len(Unwrap(result).clusters) = 4
        /\ PartitionOf(Unwrap(result).clusters) =
              { { 0, 1 }, { 2, 3 }, { 4, 5, 6 }, { 7 } }

\* C5, its case: the run on the names has ended, all 28 pairs evaluated.
C5_NamesClustered ==
    /\ phase = "done"
    /\ elements_len = NameCount
    /\ metric_calls = 28
    /\ Len(triplets) = 5

\* C6, as claimed: a cluster of exactly 3 members is committed directly,
\* whatever the size of the matrix.
C6_SizeThreeCommitted ==
    ( IsSome(formed) /\ Len(Unwrap(formed).cluster) = 3 ) =>
        Unwrap(formed).fate = "committed"

\* C6, amended: a cluster of exactly 3 members is committed directly iff
\* the matrix it was formed in has size 3; in a matrix of any other size a
\* matrix is spun off for it and collect_clusters is entered on that matrix.
C6_SizeThreeCommittedIffWholeMatrix ==
    ( IsSome(formed) /\ Len(Unwrap(formed).cluster) = 3 ) =>
        /\ Unwrap(formed).fate = "committed" <=> Unwrap(formed).size = 3
        /\ Unwrap(formed).fate = "refined" =>
              /\ IsSome(spun)
              /\ Unwrap(spun).indices = Unwrap(formed).cluster
              /\ MatrixSize(Unwrap(spun).child) = 3

\* C6, its case: three distinct members in a matrix of four, refined.
C6_SizeThreeRefined ==
    /\ IsSome(formed)
    /\ Len(Unwrap(formed).cluster) = 3
    /\ IsDistinct(Unwrap(formed).cluster)
    /\ Unwrap(formed).size = 4
    /\ Unwrap(formed).fate = "refined"
    /\ Len(stack) = 2

\* C7: new on an empty element sequence fails before a pair is taken from
\* the supplier and before the metric is evaluated, and returns no matrix.
C7_EmptyInputFailsFirst ==
    elements_len = 0 =>
        /\ phase \in { "start", "panicked" }
        /\ pairs_taken = 0
        /\ metric_calls = 0
        /\ triplets = << >>
        /\ matrix = None
        /\ supplier \in { CartesianNew(2), [ kind |-> "any", size |-> 2, count |-> 0 ] }

\* C7, its case: new has been called on the empty sequence and has failed.
C7_EmptyInputRejected ==
    /\ elements_len = 0
    /\ phase = "panicked"
    /\ supplier = CartesianNew(2)

\* What next() returned before it first returned None.
FirstNone(y) ==
    IF \E k \in DOMAIN y : y[k] = None
    THEN CHOOSE k \in DOMAIN y : y[k] = None /\ \A h \in 1 .. k - 1 : y[h] # None
    ELSE Len(y) + 1

BeforeNone(y) == [ k \in 1 .. FirstNone(y) - 1 |-> Unwrap(y[k]) ]

LexBefore(p, q) == p[1] < q[1] \/ ( p[1] = q[1] /\ p[2] < q[2] )

\* C8: a fresh CartesianIndexPairIterator of size N >= 1 yields, up to its
\* first None, exactly the C(N,2) pairs i < j < N, each once, in
\* lexicographic order; for N = 1 the first call returns None.
C8_CartesianYieldsAllPairsInOrder ==
    supplier.kind = "cartesian" =>
        LET n == supplier.size
            pairs == BeforeNone(yielded)
        IN  /\ \A k \in DOMAIN pairs : pairs[k] \in PairsBelow(n)
            /\ \A k \in 1 .. Len(pairs) - 1 : LexBefore(pairs[k], pairs[k + 1])
            /\ \A k \in DOMAIN pairs :
                  \A q \in PairsBelow(n) : LexBefore(q, pairs[k]) =>
                      \E h \in 1 .. k - 1 : pairs[h] = q
            /\ FirstNone(yielded) <= Len(yielded) =>
                  /\ Range(pairs) = PairsBelow(n)
                  /\ 2 * Len(pairs) = n * (n - 1)
            /\ ( n = 1 /\ yielded # << >> ) => yielded[1] = None

\* C8, its case: an iterator of size 4 has yielded its six pairs and None.
C8_CartesianExhausted ==
    /\ supplier.kind = "cartesian"
    /\ supplier.size = 4
    /\ Len(yielded) = 7
    /\ yielded[7] = None
    /\ Len(BeforeNone(yielded)) = 6

\* The windows of k consecutive characters of a string.
CharWindows(string, k) ==
    { SubSeq(string, a, a + k - 1) : a \in 1 .. Len(string) - k + 1 }

SharesWindow(p) ==
    CharWindows(strings[p[1] + 1], ngram_length) \cap
    CharWindows(strings[p[2] + 1], ngram_length) # {}

\* C9: NGramPairs::new(strings, k) yields the pair (i, j), i < j, exactly
\* when strings i and j share a window of k characters, each such pair once;
\* for k = 2 over alejandro, marlene, martha, ricardo it yields exactly
\* (0,1), (1,2), (1,3), (2,3).
C9_NGramPairsAreSharedWindows ==
    ( supplier.kind # "unbuilt" /\ ngram_length >= 1 ) =>
        /\ supplier.kind = "ngram"
        /\ Range(supplier.pairs) = { p \in PairsBelow(Len(strings)) : SharesWindow(p) }
        /\ IsDistinct(supplier.pairs)
        /\ strings = NameStrings =>
              Range(supplier.pairs) = { << 0, 1 >>, << 1, 2 >>, << 1, 3 >>, << 2, 3 >> }

\* C10: for k >= 1, a string shorter than k gives no windows and no
\* failure, so NGramPairs::new completes and the string is in no pair.
C10_ShortStringsGiveNoWindows ==
    ( supplier.kind # "unbuilt" /\ ngram_length >= 1 ) =>
        \A i \in DOMAIN strings : Len(strings[i]) < ngram_length =>
            /\ ~ ngrams(strings[i], ngram_length, overflow_checks).panic
            /\ ngrams(strings[i], ngram_length, overflow_checks).grams = << >>
            /\ supplier.kind = "ngram"
            /\ \A p \in Range(supplier.pairs) : p[1] # i - 1 /\ p[2] # i - 1

\* C11: in the matrix that new returned, an edge between i and j is stored,
\* in row i and in row j, iff the pair (i, j) was supplied and its metric
\* value s satisfies s > 0 and s >= min_similarity; the lookup of a stored
\* edge is s and of any other pair 0.0, so at min_similarity 0 a supplied
\* pair of similarity 0 is not stored.
C11_EdgeStoredIffRetained ==
    IsSome(matrix) =>
        LET m == Unwrap(matrix) IN
        \A p \in PairsBelow(elements_len) :
            LET stored == /\ p \in DOMAIN metric
                          /\ metric[p] > 0
                          /\ metric[p] >= min_similarity
            IN  /\ HasScore(m, p[1], p[2]) <=> stored
                /\ HasScore(m, p[2], p[1]) <=> stored
                /\ Lookup(m, p[1], p[2]) = IF stored THEN metric[p] ELSE 0
                /\ Lookup(m, p[2], p[1]) = IF stored THEN metric[p] ELSE 0

\* C11, its case: a matrix built at threshold 0.0 from a supplied pair of
\* similarity 0, which is not stored, and a supplied pair that is stored.
C11_ZeroSimilarityDropped ==
    /\ IsSome(matrix)
    /\ min_similarity = 0
    /\ \E p, q \in DOMAIN metric :
        /\ metric[p] = 0
        /\ ~ HasScore(Unwrap(matrix), p[1], p[2])
        /\ metric[q] > 0
        /\ HasScore(Unwrap(matrix), q[1], q[2])

\* Every edge of the matrix hi is an edge of the matrix lo, with the same
\* similarity.
EdgesWithin(hi, lo) ==
    /\ MatrixSize(hi) = MatrixSize(lo)
    /\ \A i, j \in 0 .. MatrixSize(hi) - 1 :
          HasScore(hi, i, j) =>
              /\ HasScore(lo, i, j)
              /\ Lookup(lo, i, j) = Lookup(hi, i, j)

\* C12: for thresholds t1 <= t2 and the same elements, metric and pairs,
\* every edge of the matrix that new builds at t2 is an edge, with the same
\* similarity, of the matrix it builds at t1; and so for the matrices that
\* spin_off returns at t2 and at t1 over the same indices.
C12_RaisingThresholdAddsNoEdge ==
    /\ ( IsSome(first_run) /\ IsSome(matrix) ) =>
          LET a == Unwrap(first_run)
              b == Unwrap(matrix)
          IN  /\ a.min_similarity <= b.min_similarity => EdgesWithin(b, a)
              /\ b.min_similarity <= a.min_similarity => EdgesWithin(a, b)
    /\ IsSome(spun) =>
          LET call == Unwrap(spun) IN
          \A t \in 0 .. MaxSim :
              LET other == spin_off(call.parent, call.indices, t) IN
              /\ t <= call.min_similarity => EdgesWithin(call.child, other)
              /\ call.min_similarity <= t => EdgesWithin(other, call.child)

\* C12, its case: new has built two matrices at two thresholds, and the
\* matrix of the higher threshold has an edge and lacks an edge of the other.
C12_HigherThresholdDropsEdge ==
    /\ IsSome(first_run)
    /\ IsSome(matrix)
    /\ LET a == Unwrap(first_run)
           b == Unwrap(matrix)
       IN  /\ a.min_similarity < b.min_similarity
           /\ \E i, j \in 0 .. MatrixSize(b) - 1 : HasScore(b, i, j)
           /\ \E i, j \in 0 .. MatrixSize(b) - 1 : HasScore(a, i, j) /\ ~ HasScore(b, i, j)

Degree(m, i) == Len(At(m.rows, i))

RECURSIVE SumUpTo(_, _)
SumUpTo(row, k) == IF k = 0 THEN 0 ELSE SumUpTo(row, k - 1) + row[k].similarity

WeightedDegree(m, i) == SumUpTo(At(m.rows, i), Degree(m, i))

\* C13: the ranking that collect_clusters takes from rank_by_weight is a
\* permutation of 0 .. N-1 in which an index at an earlier position has a
\* lexicographically greater or equal (degree, weighted degree) than an index
\* at a later one; degree is the row length, weighted degree the sum of the
\* row's similarities.
C13_RankedByDegreeThenWeight ==
    \A f \in DOMAIN stack :
        LET m == stack[f].matrix
            ranked == stack[f].ranked
        IN  /\ Len(ranked) = MatrixSize(m)
            /\ Range(ranked) = 0 .. MatrixSize(m) - 1
            /\ \A p, q \in DOMAIN ranked : p < q =>
                  LET a == ranked[p]
                      b == ranked[q]
                  IN  \/ Degree(m, a) > Degree(m, b)
                      \/ /\ Degree(m, a) = Degree(m, b)
                         /\ WeightedDegree(m, a) >= WeightedDegree(m, b)

\* C13, its case: a ranking in which two indices of equal degree stand in
\* the order of their weighted degrees, against the order of the indices.
C13_WeightBreaksDegreeTie ==
    \E f \in DOMAIN stack :
        LET m == stack[f].matrix
            ranked == stack[f].ranked
        IN  \E p, q \in DOMAIN ranked :
              /\ p < q
              /\ ranked[p] > ranked[q]
              /\ Degree(m, ranked[p]) = Degree(m, ranked[q])
              /\ WeightedDegree(m, ranked[p]) > WeightedDegree(m, ranked[q])

\* C14: Clusterer::cluster, once called on the matrix that new returned,
\* returns; and every nested invocation of collect_clusters works on a
\* matrix strictly smaller than the matrix of the invocation that made it.
C14_TerminatesOnSmallerMatrices ==
    /\ ( phase = "clustering" ) ~> ( phase = "done" )
    /\ [] ( \A k \in 2 .. Len(stack) :
              MatrixSize(stack[k].matrix) < MatrixSize(stack[k - 1].matrix) )

\* The clusters of an inner invocation in the indices of its caller: local
\* index k is the k-th member of the caller's provisional cluster.
Remapped(provisional, inner) ==
    [ c \in DOMAIN inner |->
        [ k \in DOMAIN inner[c] |-> provisional[inner[c][k] + 1] ] ]

\* C15: a cluster formed at a seed in a matrix of size N is committed as a
\* final cluster iff its size is < 3 or equals N; otherwise its size is at
\* least 3 and below N, it is not committed, collect_clusters runs on
\* spin_off(cluster, 0.0), and the clusters that run returns are committed
\* with each local index k replaced by the k-th member of the cluster.
C15_CommitOrRefineAndRemap ==
    /\ [] ( IsSome(formed) =>
              LET f == Unwrap(formed)
                  n == Len(f.cluster)
              IN  /\ f.fate = "committed" <=> ( n < 3 \/ n = f.size )
                  /\ f.fate # "committed" =>
                        /\ 3 <= n /\ n < f.size
                        /\ Len(stack) = f.depth + 1
                        /\ stack[f.depth].current_cluster = f.cluster
                        /\ Unwrap(spun).parent = stack[f.depth].matrix
                        /\ Unwrap(spun).indices = f.cluster
                        /\ Unwrap(spun).min_similarity = 0
                        /\ stack[f.depth + 1].matrix = Unwrap(spun).child )
    /\ [][ /\ ( Len(stack) >= 1 /\ Len(stack') = Len(stack) + 1 ) =>
                /\ Unwrap(formed').fate = "refined"
                /\ stack'[Len(stack)].clusters_so_far = Top.clusters_so_far
           /\ ( Len(stack) >= 1 /\ Len(stack') = Len(stack)
                  /\ stack'[Len(stack)].clusters_so_far # Top.clusters_so_far ) =>
                /\ Unwrap(formed').fate = "committed"
                /\ stack'[Len(stack)].clusters_so_far =
                      Append(Top.clusters_so_far, Unwrap(formed').cluster)
           /\ ( Len(stack) >= 2 /\ Len(stack') = Len(stack) - 1 ) =>
                LET caller == stack[Len(stack) - 1] IN
                stack'[Len(stack')].clusters_so_far =
                    caller.clusters_so_far \o
                    Remapped(caller.current_cluster, Top.clusters_so_far)
         ]_vars

SiblingsIn(m, i) == { At(m.rows, i)[k].sibling_index : k \in DOMAIN At(m.rows, i) }

\* C16: every invocation goes through its ranking position by position; an
\* index that is already visited forms no cluster; at an unvisited seed s
\* the cluster formed is s followed by exactly the siblings of s's row that
\* were unvisited, in descending order of their similarity to s, and all its
\* members are visited afterwards.
C16_SeedsAndSiblings ==
    [][ /\ \A k \in DOMAIN stack : k \in DOMAIN stack' =>
              /\ stack'[k].ranked = stack[k].ranked
              /\ stack'[k].next \in { stack[k].next, stack[k].next + 1 }
        /\ ( phase = "clustering" /\ Top.next < Len(Top.ranked) ) =>
              LET frame == Top
                  s == frame.ranked[frame.next + 1]
                  after == stack'[Len(stack)]
                  unvisited == SiblingsIn(frame.matrix, s) \ frame.visited_so_far
              IN  IF s \in frame.visited_so_far
                  THEN /\ formed' = formed
                       /\ Len(stack') = Len(stack)
                       /\ after.next = frame.next + 1
                       /\ after.clusters_so_far = frame.clusters_so_far
                       /\ after.visited_so_far = frame.visited_so_far
                  ELSE LET c == Unwrap(formed').cluster IN
                       /\ Unwrap(formed').seed = s
                       /\ Unwrap(formed').depth = Len(stack)
                       /\ c[1] = s
                       /\ { c[k] : k \in 2 .. Len(c) } = unvisited
                       /\ \A k \in 2 .. Len(c) - 1 :
                             Lookup(frame.matrix, s, c[k]) >= Lookup(frame.matrix, s, c[k + 1])
                       /\ after.visited_so_far = frame.visited_so_far \cup Range(c)
      ]_vars

\* C16, its case: a cluster has been formed at a seed whose row holds a
\* sibling that was visited before, after a cluster of three members whose
\* siblings differ in similarity.
C16_VisitedSiblingLeftOut ==
    /\ IsSome(formed)
    /\ Len(stack) = 1
    /\ Unwrap(formed).depth = 1
    /\ LET f == Unwrap(formed)
           m == Top.matrix
       IN  /\ SiblingsIn(m, f.seed) \ Range(f.cluster) # {}
           /\ \E c \in DOMAIN Top.clusters_so_far :
                LET first == Top.clusters_so_far[c] IN
                /\ Len(first) = 3
                /\ Lookup(m, first[1], first[2]) > Lookup(m, first[1], first[3])

C18_CartesianStaysExhausted ==
    supplier.kind = "cartesian" =>
        /\ \A k \in DOMAIN yielded : \A h \in DOMAIN yielded :
              ( k < h /\ yielded[k] = None ) => yielded[h] = None
        /\ \A k \in DOMAIN yielded :
              IsSome(yielded[k]) => Unwrap(yielded[k]) \in PairsBelow(supplier.size)

\* C19: every row of a matrix that new returned, for any supplied sequence
\* of pairs i < j < N, and of a matrix that spin_off derived from it over
\* distinct indices, holds at most one Score per sibling index and no Score
\* for the row's own index.
C19_OneScorePerSibling ==
    \A m \in { Unwrap(matrix) : x \in { 1 } \cap { Len(matrix) } } \cup
             { Unwrap(spun).child : x \in { 1 } \cap
                 { IF IsSome(spun) /\ IsDistinct(Unwrap(spun).indices)
                   THEN 1 ELSE 0 } } :
    \A i \in 0 .. MatrixSize(m) - 1 :
        LET row == At(m.rows, i) IN
        /\ \A k, h \in DOMAIN row : k # h => row[k].sibling_index # row[h].sibling_index
        /\ \A k \in DOMAIN row : row[k].sibling_index # i

====
